---------------------------- MODULE Spec2Model ----------------------------
(***************************************************************************)
(* Model of rules.py of pv-attributes: the three rules that infer a file's *)
(* modification time from its name or from the name of a directory above   *)
(* it, the time zone resolver they share, and a caller that evaluates      *)
(* rules on one file and writes each verdict back.                         *)
(*                                                                         *)
(* Text is a sequence of one-character strings.  A date-time is a record   *)
(* of calendar fields (a naive datetime); an aware datetime in the system  *)
(* zone is the same record read in SYSTEM_ZONE.  Zones have fixed whole-   *)
(* hour offsets.                                                           *)
(***************************************************************************)
EXTENDS Integers, Sequences, FiniteSets, TLC

(***************************************************************************)
(* Bounds.                                                                 *)
(***************************************************************************)
\* Rule evaluations the caller performs on one file.
MaxEvals == 3

(***************************************************************************)
(* Characters and text.                                                    *)
(***************************************************************************)
DigitChars == <<"0", "1", "2", "3", "4", "5", "6", "7", "8", "9">>

\* char.isdigit()
IsDigitChar(c) == \E i \in 1..10 : DigitChars[i] = c

\* int(char) for a decimal digit
DigitVal(c) == (CHOOSE i \in 1..10 : DigitChars[i] = c) - 1

\* str.isdigit(): non-empty and every character a digit
IsDigitStr(s) == Len(s) > 0 /\ \A i \in 1..Len(s) : IsDigitChar(s[i])

\* int(s) of a digit string
RECURSIVE IntOf(_)
IntOf(s) ==
    IF Len(s) = 0 THEN 0
    ELSE 10 * IntOf(SubSeq(s, 1, Len(s) - 1)) + DigitVal(s[Len(s)])

\* s[a:b] with Python's 0-based, clipped slice bounds
Slice(s, a, b) ==
    LET hi == IF b > Len(s) THEN Len(s) ELSE b
    IN  IF a >= hi THEN <<>> ELSE SubSeq(s, a + 1, hi)

\* Optional values: <<>> is None, <<v>> is v.
None == <<>>
Some(v) == <<v>>

(***************************************************************************)
(* The calendar of datetime.                                               *)
(***************************************************************************)
IsLeap(y) == (y % 4 = 0) /\ ((y % 100 # 0) \/ (y % 400 = 0))

DaysInMonth(y, m) ==
    IF m = 2 THEN (IF IsLeap(y) THEN 29 ELSE 28)
    ELSE IF m \in {4, 6, 9, 11} THEN 30 ELSE 31

\* The field values datetime(...) accepts; anything else is a ValueError.
ValidDateTime(y, mo, d, h, mi, s) ==
    /\ y \in 1..9999
    /\ mo \in 1..12
    /\ d >= 1 /\ d <= DaysInMonth(y, mo)
    /\ h \in 0..23
    /\ mi \in 0..59
    /\ s \in 0..59

DT(y, mo, d, h, mi, s) ==
    [year |-> y, month |-> mo, day |-> d, hour |-> h, minute |-> mi, second |-> s]

NextDay(t) ==
    IF t.day < DaysInMonth(t.year, t.month) THEN [t EXCEPT !.day = t.day + 1]
    ELSE IF t.month < 12 THEN [t EXCEPT !.month = t.month + 1, !.day = 1]
    ELSE [t EXCEPT !.year = t.year + 1, !.month = 1, !.day = 1]

PrevDay(t) ==
    IF t.day > 1 THEN [t EXCEPT !.day = t.day - 1]
    ELSE IF t.month > 1
         THEN [t EXCEPT !.month = t.month - 1,
                        !.day = DaysInMonth(t.year, t.month - 1)]
    ELSE [t EXCEPT !.year = t.year - 1, !.month = 12, !.day = 31]

RECURSIVE ShiftDays(_, _)
ShiftDays(t, n) ==
    IF n = 0 THEN t
    ELSE IF n > 0 THEN ShiftDays(NextDay(t), n - 1)
    ELSE ShiftDays(PrevDay(t), n + 1)

\* Order of two date-times read in the same zone.
DateTimeKey(t) == <<t.year, t.month, t.day, t.hour, t.minute, t.second>>

RECURSIVE LexLe(_, _, _)
LexLe(a, b, i) ==
    IF i > Len(a) THEN TRUE
    ELSE IF a[i] < b[i] THEN TRUE
    ELSE IF a[i] > b[i] THEN FALSE
    ELSE LexLe(a, b, i + 1)

DateTimeLe(a, b) == LexLe(DateTimeKey(a), DateTimeKey(b), 1)

(***************************************************************************)
(* datetime.strptime.  A format is a sequence of items, a directive ("%Y", *)
(* "%m", "%d", "%H", "%M", "%S") or a literal character.  strptime turns   *)
(* the format into a regular expression, takes the first match the regex   *)
(* engine finds from the start of the text (alternatives of a directive in *)
(* their written order), rejects text left over after the match, and       *)
(* builds a datetime from the matched fields, which rejects field values   *)
(* outside the calendar.                                                   *)
(***************************************************************************)
AnyDigit == {DigitChars[i] : i \in 1..10}
DigitsFrom(a, b) == {DigitChars[i + 1] : i \in a..b}

\* The alternatives of one format item, each a sequence of character classes.
Alternatives(item) ==
    IF item = "%Y" THEN << <<AnyDigit, AnyDigit, AnyDigit, AnyDigit>> >>
    ELSE IF item = "%m"
      THEN << <<{"1"}, DigitsFrom(0, 2)>>, <<{"0"}, DigitsFrom(1, 9)>>,
              <<DigitsFrom(1, 9)>> >>
    ELSE IF item = "%d"
      THEN << <<{"3"}, DigitsFrom(0, 1)>>, <<DigitsFrom(1, 2), AnyDigit>>,
              <<{"0"}, DigitsFrom(1, 9)>>, <<DigitsFrom(1, 9)>>,
              <<{" "}, DigitsFrom(1, 9)>> >>
    ELSE IF item = "%H"
      THEN << <<{"2"}, DigitsFrom(0, 3)>>, <<DigitsFrom(0, 1), AnyDigit>>,
              <<AnyDigit>> >>
    ELSE IF item = "%M"
      THEN << <<DigitsFrom(0, 5), AnyDigit>>, <<AnyDigit>> >>
    ELSE IF item = "%S"
      THEN << <<{"6"}, DigitsFrom(0, 1)>>, <<DigitsFrom(0, 5), AnyDigit>>,
              <<AnyDigit>> >>
    ELSE << <<{item}>> >>

\* Whether the classes of one alternative match the text at 1-based pos.
AltMatches(alt, s, pos) ==
    /\ pos + Len(alt) - 1 <= Len(s)
    /\ \A k \in 1..Len(alt) : s[pos + k - 1] \in alt[k]

\* The first match of items i.. of the format at pos, trying the alternatives
\* of item i from the k-th on and backtracking into the next one when the rest
\* of the format does not match: None, or Some of the lengths the items matched.
\* (A value used several times is bound by a set constructor, { e(x) : x \in {v} },
\* so that it is computed once.)
RECURSIVE RegexMatch(_, _, _, _, _)
RegexMatch(fmt, i, k, s, pos) ==
    IF i > Len(fmt) THEN Some(<<>>)
    ELSE IF k > Len(Alternatives(fmt[i])) THEN None
    ELSE IF ~AltMatches(Alternatives(fmt[i])[k], s, pos)
    THEN RegexMatch(fmt, i, k + 1, s, pos)
    ELSE CHOOSE r \in
             { IF rest = None
               THEN RegexMatch(fmt, i, k + 1, s, pos)
               ELSE Some(<<Len(Alternatives(fmt[i])[k])>> \o rest[1]) :
               rest \in { RegexMatch(fmt, i + 1, 1, s,
                                     pos + Len(Alternatives(fmt[i])[k])) } } : TRUE

RECURSIVE SumSeq(_)
SumSeq(q) == IF Len(q) = 0 THEN 0 ELSE q[1] + SumSeq(Tail(q))

\* int() of the text a directive matched; a day may be padded with a space.
FieldInt(txt) == IF txt[1] = " " THEN IntOf(Tail(txt)) ELSE IntOf(txt)

\* The value of directive d in a match, or dflt when the format lacks it.
FieldOf(fmt, lens, s, d, dflt) ==
    IF \E i \in 1..Len(fmt) : fmt[i] = d
    THEN LET i == CHOOSE x \in 1..Len(fmt) : fmt[x] = d
             start == SumSeq(SubSeq(lens, 1, i - 1))
         IN  FieldInt(SubSeq(s, start + 1, start + lens[i]))
    ELSE dflt

\* The datetime of the fields, or None for the ValueError of datetime(...).
MakeDateTime(y, mo, d, h, mi, sc) ==
    IF ValidDateTime(y, mo, d, h, mi, sc) THEN Some(DT(y, mo, d, h, mi, sc))
    ELSE None

\* strptime once the regular expression matched (m) or did not (None).
StrptimeMatched(s, fmt, m) ==
    IF m = None THEN None
    ELSE IF SumSeq(m[1]) # Len(s) THEN None
    ELSE MakeDateTime(FieldOf(fmt, m[1], s, "%Y", 1900),
                      FieldOf(fmt, m[1], s, "%m", 1),
                      FieldOf(fmt, m[1], s, "%d", 1),
                      FieldOf(fmt, m[1], s, "%H", 0),
                      FieldOf(fmt, m[1], s, "%M", 0),
                      FieldOf(fmt, m[1], s, "%S", 0))

\* datetime.strptime(data_string, fmt): None stands for ValueError.
strptime(data_string, fmt) ==
    CHOOSE r \in
        { CHOOSE q \in { StrptimeMatched(s, fmt, m) :
                         m \in { RegexMatch(fmt, 1, 1, s, 1) } } : TRUE :
          s \in { data_string } } : TRUE

\* The formats the rules use.
FmtDateNTime == <<"%Y", "%m", "%d", "_", "%H", "%M", "%S">>
FmtYmd == <<"%Y", "%m", "%d">>
FmtY_m_d == <<"%Y", "-", "%m", "-", "%d">>
FmtY_m == <<"%Y", "-", "%m">>
FmtY == <<"%Y">>

(***************************************************************************)
(* Time zones: ZoneInfo keys with a fixed offset from UTC, in hours.       *)
(***************************************************************************)
UtcOffset(zone) ==
    IF zone = "Etc/GMT-3" THEN 3
    ELSE IF zone = "Etc/GMT-7" THEN 7
    ELSE IF zone = "Etc/GMT+5" THEN 0 - 5
    ELSE 0

\* aware.astimezone(to), for a wall clock t read in zone from
AsTimeZone(t, from, to) ==
    LET h == t.hour + UtcOffset(to) - UtcOffset(from)
    IN  ShiftDays([t EXCEPT !.hour = h % 24], h \div 24)

(***************************************************************************)
(* config: SYSTEM_ZONE and the tables PERIODS may hold.  A period is a     *)
(* directory, an inclusive range of instants (wall clocks in the system    *)
(* zone) and the zone of the dates found there.  A directory is the        *)
(* sequence of its names from the root.                                    *)
(***************************************************************************)
SYSTEM_ZONE == "Etc/GMT-3"

Period(path, start, end, timezone) ==
    [path |-> path, start |-> start, end |-> end, timezone |-> timezone]

DirA == <<"a">>
Dir2020 == <<"2", "0", "2", "0">>

PeriodTables ==
    { \* one period: everything, in the system zone
      << Period(<<>>, DT(2019, 1, 1, 0, 0, 0), DT(2021, 12, 31, 23, 59, 59),
                SYSTEM_ZONE) >>,
      \* a broad period, then two overlapping overrides of it under /a
      << Period(<<>>, DT(2019, 1, 1, 0, 0, 0), DT(2021, 12, 31, 23, 59, 59),
                SYSTEM_ZONE),
         Period(<<DirA>>, DT(2019, 11, 1, 0, 0, 0), DT(2020, 4, 30, 23, 59, 59),
                "Etc/GMT+5"),
         Period(<<DirA>>, DT(2019, 11, 27, 0, 0, 0), DT(2019, 11, 27, 19, 40, 31),
                "Etc/GMT-7") >>,
      \* the narrow period declared first, the broad one last
      << Period(<<DirA, Dir2020>>, DT(2020, 1, 1, 0, 0, 0),
                DT(2020, 12, 31, 23, 59, 59), "Etc/GMT+5"),
         Period(<<DirA>>, DT(2019, 6, 1, 0, 0, 0), DT(2020, 12, 31, 23, 59, 59),
                "Etc/GMT-7") >> }

VARIABLES
    PERIODS,    \* config.PERIODS, read-only after start
    file_stat,  \* the FileStat under consideration: path and mtime
    log         \* the rule evaluations so far, oldest first

vars == <<PERIODS, file_stat, log>>

\* YEARS, the years the periods cover
YEARS ==
    UNION {p.start.year .. p.end.year : p \in {PERIODS[i] : i \in 1..Len(PERIODS)}}

(***************************************************************************)
(* pathlib.  A path is [parent, stem]: the directory holding the file and  *)
(* the file's name without its suffix.                                     *)
(***************************************************************************)
\* other.is_relative_to(base), for two directories
IsRelativeTo(other, base) ==
    Len(base) <= Len(other) /\ SubSeq(other, 1, Len(base)) = base

\* path.parents: the ancestors, nearest first, the root last
Parents(path) ==
    [i \in 1..(Len(path.parent) + 1) |->
        SubSeq(path.parent, 1, Len(path.parent) + 1 - i)]

\* dir.name; the root's name is empty
Name(dir) == IF Len(dir) = 0 THEN <<>> ELSE dir[Len(dir)]

\* A naive datetime's astimezone(SYSTEM_ZONE) reads it in the zone of the
\* process, which is the system zone.
LocalToSystem(t) == AsTimeZone(t, SYSTEM_ZONE, SYSTEM_ZONE)

(***************************************************************************)
(* timezone_for_date                                                       *)
(***************************************************************************)
RECURSIVE TimezoneLoop(_, _, _)
TimezoneLoop(i, date_n_time, path) ==
    IF i = 0 THEN SYSTEM_ZONE
    ELSE LET period == PERIODS[i]
         IN  IF ~IsRelativeTo(path.parent, period.path)
             THEN TimezoneLoop(i - 1, date_n_time, path)
             ELSE IF /\ DateTimeLe(period.start, LocalToSystem(date_n_time))
                     /\ DateTimeLe(LocalToSystem(date_n_time), period.end)
             THEN period.timezone
             ELSE TimezoneLoop(i - 1, date_n_time, path)

\* A faulty variant: the periods taken in declaration order, the first-declared winning.
RECURSIVE TimezoneLoopForward(_, _, _)
TimezoneLoopForward(i, date_n_time, path) ==
    IF i > Len(PERIODS) THEN SYSTEM_ZONE
    ELSE IF /\ IsRelativeTo(path.parent, PERIODS[i].path)
            /\ DateTimeLe(PERIODS[i].start, LocalToSystem(date_n_time))
            /\ DateTimeLe(LocalToSystem(date_n_time), PERIODS[i].end)
    THEN PERIODS[i].timezone
    ELSE TimezoneLoopForward(i + 1, date_n_time, path)

timezone_for_date_first_declared(date_n_time, path) ==
    TimezoneLoopForward(1, date_n_time, path)

timezone_for_date(date_n_time, path) ==
    TimezoneLoop(Len(PERIODS), date_n_time, path)

(***************************************************************************)
(* What one rule evaluation produces: the RuleResult it returns            *)
(* (applicable, newInstant), or raised when an exception leaves the rule;  *)
(* out, the lines it printed (the year and the path each names); tried,    *)
(* the date formats it attempted, in order.                                *)
(***************************************************************************)
Result(applicable, newInstant, out, tried) ==
    [raised |-> FALSE, applicable |-> applicable, newInstant |-> newInstant,
     out |-> out, tried |-> tried]

Raised(tried) ==
    [raised |-> TRUE, applicable |-> FALSE, newInstant |-> None,
     out |-> <<>>, tried |-> tried]

\* print(f"Year {year} for file '{path}' is not in years from periods.")
YearMessage(year, path) == [year |-> year, path |-> path]

\* What a reconciler hands back: its return value and what it printed.
Reconciled(value, out) == [value |-> value, out |-> out]

(***************************************************************************)
(* rule_date_n_time and its helpers                                        *)
(***************************************************************************)
_get_date_n_time(candidate) ==
    IF \/ Len(candidate) # 15
       \/ ~IsDigitStr(Slice(candidate, 0, 8))
       \/ candidate[9] # "_"
       \/ ~IsDigitStr(Slice(candidate, 9, 15))
    THEN None
    ELSE strptime(candidate, FmtDateNTime)

\* A faulty variant: the zone resolved from the file's current time.
StemZone_of_mtime(date_n_time_stem, file_stat_) ==
    timezone_for_date(file_stat_.mtime, file_stat_.path)

\* The zone _apply_time_zone attaches to the date and time of the stem.
StemZone(date_n_time_stem, file_stat_) ==
    timezone_for_date(date_n_time_stem, file_stat_.path)

\* A faulty variant: no check of the year.
_apply_time_zone_any_year(date_n_time_stem, file_stat_) ==
    LET timezone == StemZone(date_n_time_stem, file_stat_)
        date_n_time == AsTimeZone(date_n_time_stem, timezone, SYSTEM_ZONE)
    IN  IF date_n_time # file_stat_.mtime
        THEN Reconciled(Some(date_n_time), <<>>)
        ELSE Reconciled(None, <<>>)

_apply_time_zone(date_n_time_stem, file_stat_) ==
    IF date_n_time_stem.year \notin YEARS
    THEN Reconciled(None, <<YearMessage(date_n_time_stem.year, file_stat_.path)>>)
    ELSE LET timezone == StemZone(date_n_time_stem, file_stat_)
             date_n_time == AsTimeZone(date_n_time_stem, timezone, SYSTEM_ZONE)
         IN  IF date_n_time # file_stat_.mtime
             THEN Reconciled(Some(date_n_time), <<>>)
             ELSE Reconciled(None, <<>>)

\* None, or Some of the 0-based index of the first digit
_first_digit_index(candidate) ==
    IF \E i \in 1..Len(candidate) : IsDigitChar(candidate[i])
    THEN Some((CHOOSE i \in 1..Len(candidate) :
                  /\ IsDigitChar(candidate[i])
                  /\ \A j \in 1..(i - 1) : ~IsDigitChar(candidate[j])) - 1)
    ELSE None

rule_date_n_time(file_stat_) ==
    LET first_digit == _first_digit_index(file_stat_.path.stem)
    IN  IF first_digit = None THEN Result(FALSE, None, <<>>, <<>>)
        ELSE CHOOSE res \in
                 { IF date_n_time_stem = None
                   THEN Result(FALSE, None, <<>>, <<FmtDateNTime>>)
                   ELSE LET r == _apply_time_zone(date_n_time_stem[1], file_stat_)
                        IN  Result(TRUE, r.value, r.out, <<FmtDateNTime>>) :
                   date_n_time_stem \in
                       { _get_date_n_time(Slice(file_stat_.path.stem,
                                                first_digit[1],
                                                first_digit[1] + 15)) } } : TRUE

(***************************************************************************)
(* rule_date_without_time and its helpers                                  *)
(***************************************************************************)
\* len(date_format) with %Y, %m, %d replaced by "2020", "12", "31"
RECURSIVE FormatLength(_)
FormatLength(date_format) ==
    IF Len(date_format) = 0 THEN 0
    ELSE (IF date_format[1] = "%Y" THEN 4
          ELSE IF date_format[1] \in {"%m", "%d"} THEN 2 ELSE 1)
         + FormatLength(Tail(date_format))

\* A faulty variant: the whole candidate parsed, not its prefix of the format's length.
_get_date_without_time_whole(candidate, date_format) ==
    IF Len(candidate) < FormatLength(date_format) THEN None
    ELSE strptime(candidate, date_format)

_get_date_without_time(candidate, date_format) ==
    LET length == FormatLength(date_format)
    IN  IF Len(candidate) < length THEN None
        ELSE strptime(Slice(candidate, 0, length), date_format)

\* A faulty variant: the new date-time returned without comparing it with the mtime.
_add_time_from_stat_no_compare(date_n_time_stem, file_stat_) ==
    IF date_n_time_stem.year \notin YEARS
    THEN Reconciled(None, <<YearMessage(date_n_time_stem.year, file_stat_.path)>>)
    ELSE Reconciled(Some(DT(date_n_time_stem.year, date_n_time_stem.month,
                            date_n_time_stem.day, file_stat_.mtime.hour,
                            file_stat_.mtime.minute, file_stat_.mtime.second)),
                    <<>>)

\* A faulty variant: the time of the parsed date (midnight) kept, not the mtime's.
_add_time_from_stat_midnight(date_n_time_stem, file_stat_) ==
    IF date_n_time_stem.year \notin YEARS
    THEN Reconciled(None, <<YearMessage(date_n_time_stem.year, file_stat_.path)>>)
    ELSE IF DT(date_n_time_stem.year, date_n_time_stem.month,
               date_n_time_stem.day, 0, 0, 0) # file_stat_.mtime
    THEN Reconciled(Some(DT(date_n_time_stem.year, date_n_time_stem.month,
                            date_n_time_stem.day, 0, 0, 0)), <<>>)
    ELSE Reconciled(None, <<>>)

_add_time_from_stat(date_n_time_stem, file_stat_) ==
    IF date_n_time_stem.year \notin YEARS
    THEN Reconciled(None, <<YearMessage(date_n_time_stem.year, file_stat_.path)>>)
    ELSE LET time == AsTimeZone(file_stat_.mtime, SYSTEM_ZONE, SYSTEM_ZONE)
             date_n_time == DT(date_n_time_stem.year, date_n_time_stem.month,
                               date_n_time_stem.day,
                               time.hour, time.minute, time.second)
         IN  IF date_n_time # file_stat_.mtime
             THEN Reconciled(Some(date_n_time), <<>>)
             ELSE Reconciled(None, <<>>)

NameFormats == <<FmtYmd, FmtY_m_d>>

\* A faulty variant: a format whose date has a year outside YEARS is passed over and the
\* next format tried.
RECURSIVE WithoutTimeLoop_continue(_, _, _)
WithoutTimeLoop_continue(i, candidate, file_stat_) ==
    IF i > Len(NameFormats)
    THEN Result(FALSE, None, <<>>, NameFormats)
    ELSE CHOOSE res \in
             { IF date_in_name = None \/ date_in_name[1].year \notin YEARS
               THEN WithoutTimeLoop_continue(i + 1, candidate, file_stat_)
               ELSE LET r == _add_time_from_stat(date_in_name[1], file_stat_)
                    IN  Result(TRUE, r.value, r.out, SubSeq(NameFormats, 1, i)) :
               date_in_name \in
                   { _get_date_without_time(candidate, NameFormats[i]) } } : TRUE

\* The for loop of rule_date_without_time, from its i-th format on.
RECURSIVE WithoutTimeLoop(_, _, _)
WithoutTimeLoop(i, candidate, file_stat_) ==
    IF i > Len(NameFormats)
    THEN Result(FALSE, None, <<>>, NameFormats)
    ELSE CHOOSE res \in
             { IF date_in_name = None
               THEN WithoutTimeLoop(i + 1, candidate, file_stat_)
               ELSE LET r == _add_time_from_stat(date_in_name[1], file_stat_)
                    IN  Result(TRUE, r.value, r.out, SubSeq(NameFormats, 1, i)) :
               date_in_name \in
                   { _get_date_without_time(candidate, NameFormats[i]) } } : TRUE

rule_date_without_time(file_stat_) ==
    LET first_digit == _first_digit_index(file_stat_.path.stem)
    IN  IF first_digit = None THEN Result(FALSE, None, <<>>, <<>>)
        ELSE WithoutTimeLoop(1, Slice(file_stat_.path.stem, first_digit[1],
                                      Len(file_stat_.path.stem)),
                             file_stat_)

(***************************************************************************)
(* rule_date_in_dir and its helpers                                        *)
(***************************************************************************)
\* The for loop of _parent_with_year over path.parents, from the i-th on.
RECURSIVE ParentLoop(_, _)
ParentLoop(i, parents) ==
    IF i > Len(parents) THEN None
    ELSE LET year_part == Slice(Name(parents[i]), 0, 4)
         IN  IF IsDigitStr(year_part) /\ IntOf(year_part) \in YEARS
             THEN Some(parents[i])
             ELSE ParentLoop(i + 1, parents)

\* A faulty variant: the ancestors walked from the root, the outermost match returned.
RECURSIVE ParentLoopFromRoot(_, _)
ParentLoopFromRoot(i, parents) ==
    IF i < 1 THEN None
    ELSE IF /\ IsDigitStr(Slice(Name(parents[i]), 0, 4))
            /\ IntOf(Slice(Name(parents[i]), 0, 4)) \in YEARS
    THEN Some(parents[i])
    ELSE ParentLoopFromRoot(i - 1, parents)

_parent_with_year_outermost(path) ==
    ParentLoopFromRoot(Len(Parents(path)), Parents(path))

_parent_with_year(path) == ParentLoop(1, Parents(path))

\* datetime.replace(month=month): None stands for ValueError.
ReplaceMonth(t, month) ==
    IF ValidDateTime(t.year, month, t.day, t.hour, t.minute, t.second)
    THEN Some([t EXCEPT !.month = month]) ELSE None

\* datetime.replace(day=day): None stands for ValueError.
ReplaceDay(t, day) ==
    IF ValidDateTime(t.year, t.month, day, t.hour, t.minute, t.second)
    THEN Some([t EXCEPT !.day = day]) ELSE None

HasItem(date_format, item) == \E i \in 1..Len(date_format) : date_format[i] = item

DirFormats == <<FmtY_m_d, FmtY_m, FmtY>>

\* The month and the day rule_date_in_dir substitutes into the parsed date.
SubstituteMonth(file_stat_) == file_stat_.mtime.month
SubstituteDay(file_stat_) == file_stat_.mtime.day

\* The parsed date with the month and the day the format lacks taken from the
\* file's mtime, month first: None stands for the ValueError of replace().
WithDay(date_n_time, date_format, file_stat_) ==
    IF ~HasItem(date_format, "%d")
    THEN ReplaceDay(date_n_time, SubstituteDay(file_stat_))
    ELSE Some(date_n_time)

WithMonthAndDay(date_in_dir, date_format, file_stat_) ==
    IF ~HasItem(date_format, "%m")
    THEN IF ReplaceMonth(date_in_dir, SubstituteMonth(file_stat_)) = None
         THEN None
         ELSE WithDay(ReplaceMonth(date_in_dir, SubstituteMonth(file_stat_))[1],
                      date_format, file_stat_)
    ELSE WithDay(date_in_dir, date_format, file_stat_)

\* The body of the for loop of rule_date_in_dir once the i-th format parsed.
InDirParsed(i, date_in_dir, file_stat_) ==
    CHOOSE res \in
        { IF date_n_time = None
          THEN Raised(SubSeq(DirFormats, 1, i))
          ELSE LET r == _add_time_from_stat(date_n_time[1], file_stat_)
               IN  Result(TRUE, r.value, r.out, SubSeq(DirFormats, 1, i)) :
          date_n_time \in
              { WithMonthAndDay(date_in_dir, DirFormats[i], file_stat_) } } : TRUE

\* The for loop of rule_date_in_dir, from its i-th format on.
RECURSIVE InDirLoop(_, _, _)
InDirLoop(i, parent, file_stat_) ==
    IF i > Len(DirFormats)
    THEN Result(FALSE, None, <<>>, DirFormats)
    ELSE CHOOSE res \in
             { IF date_in_dir = None
               THEN InDirLoop(i + 1, parent, file_stat_)
               ELSE InDirParsed(i, date_in_dir[1], file_stat_) :
               date_in_dir \in
                   { _get_date_without_time(Name(parent), DirFormats[i]) } } : TRUE

rule_date_in_dir(file_stat_) ==
    CHOOSE res \in
        { IF parent = None THEN Result(FALSE, None, <<>>, <<>>)
          ELSE InDirLoop(1, parent[1], file_stat_) :
          parent \in { _parent_with_year(file_stat_.path) } } : TRUE

(***************************************************************************)
(* The files and the modification times the caller is given.               *)
(***************************************************************************)
Stems ==
    { <<"I", "M", "G", "_", "2", "0", "1", "9", "1", "1", "2", "7", "_", "1", "9", "4", "0", "3", "1">>,  \* the docstring's example; the token ends a period of the second table
      <<"I", "M", "G", "_", "2", "0", "1", "9", "1", "1", "2", "7", "_", "1", "9", "4", "0", "3", "2">>,  \* one second later
      <<"2", "0", "2", "0", "0", "4", "1", "2", "_", "0", "1", "0", "0", "0", "0", "_", "1">>,  \* a token early in the day
      <<"V", "I", "D", "-", "2", "0", "2", "0", "0", "4", "1", "2", "-", "W", "A", "0", "0", "0", "0">>,  \* date only
      <<"2", "0", "2", "0", "-", "0", "4", "-", "1", "2">>,  \* hyphenated date
      <<"S", "N", "C", "0", "0", "0", "0", "1">>,  \* digits that are no date
      <<"a", "b", "c">>,  \* no digit
      <<"2", "0", "1", "9", "1", "3", "2", "7", "_", "1", "9", "4", "0", "3", "1">>,  \* month 13
      <<"2", "0", "1", "9", "0", "2", "2", "9", "_", "1", "2", "0", "0", "0", "0">>,  \* 29 February of a common year
      <<"2", "0", "1", "9", "1", "1", "2", "7", "_", "2", "4", "6", "0", "0", "0">>,  \* hour 24
      <<"2", "0", "1", "9", "1", "1", "2", "7", "_", "1", "9", "4", "0", "3">>,  \* a token one character short
      <<"2", "0", "1", "9", "1", "1", "2", "7", "-", "1", "9", "4", "0", "3", "1">>,  \* a hyphen for the underscore
      <<"I", "M", "G", "_", "1", "8", "0", "0", "0", "1", "0", "1", "_", "0", "0", "0", "0", "0", "0">>,  \* a year no period covers
      <<"x", "1", "8", "0", "0", "-", "0", "1", "-", "0", "1">>,  \* the same, hyphenated
      <<"2", "0", "2", "0", "1", "2", " ", "5">>,  \* a day padded with a space
      <<"0", "0", "0", "0", "0", "1", "0", "1", "_", "0", "0", "0", "0", "0", "0">> }  \* year 0

Directories ==
    { <<<<"a">>, <<"b">>>>,  \* no directory names a year
      <<<<"a">>, <<"2", "0", "2", "0", "-", "1", "2", "-", "3", "1">>>>,  \* the docstring's example
      <<<<"a">>, <<"2", "0", "2", "1">>>>,  \* a year alone
      <<<<"a">>, <<"2", "0", "2", "0", "-", "0", "2">>>>,  \* a year and a month
      <<<<"2", "0", "1", "9">>, <<"a">>, <<"2", "0", "2", "0", "-", "1", "2", "-", "3", "1">>, <<"b">>>>,  \* two directories name a year
      <<<<"a">>, <<"2", "0", "2", "0">>, <<"1", "8", "0", "0">>>>,  \* the nearest directory names a year no period covers
      <<<<"a">>, <<"2", "0", "2", "0", "e", "x", "t", "r", "a">>>>,  \* a year followed by other text
      <<<<"a">>, <<"2", "0">>>>,  \* a name shorter than a year
      <<<<"a">>, <<"2", "0", "2", "0", "-", "1", "3">>>> }  \* a year and no month of the calendar

\* Every stem in a directory without and with a date, and every directory
\* around a stem with and without a date.
Paths ==
    [parent : {d \in Directories : Len(d) = 2 /\ Len(d[2]) \in {1, 10}},
     stem : Stems]
    \cup [parent : Directories,
          stem : {s \in Stems : Len(s) = 3 \/ (Len(s) = 19 /\ s[19] = "1")}]

Mtimes ==
    { DT(2020, 2, 29, 10, 0, 0),
      DT(2020, 1, 30, 23, 59, 59),
      DT(2019, 11, 27, 15, 40, 31),
      DT(2020, 4, 12, 10, 0, 0),
      DT(2020, 12, 31, 10, 0, 0) }

(***************************************************************************)
(* The caller: it evaluates rules on the file, one after another in any   *)
(* order, and has each new instant written to the file's mtime before the  *)
(* next evaluation.  An exception that leaves a rule ends the run.         *)
(***************************************************************************)
Rules == {"rule_date_n_time", "rule_date_without_time", "rule_date_in_dir"}

appropriate(func, file_stat_) ==
    IF func = "rule_date_n_time" THEN rule_date_n_time(file_stat_)
    ELSE IF func = "rule_date_without_time" THEN rule_date_without_time(file_stat_)
    ELSE rule_date_in_dir(file_stat_)

\* The time-applier: the mtime after the verdict is acted on.
Applied(file_stat_, result) ==
    IF ~result.raised /\ result.newInstant # None
    THEN [file_stat_ EXCEPT !.mtime = result.newInstant[1]]
    ELSE file_stat_

Crashed == Len(log) > 0 /\ log[Len(log)].result.raised

Init ==
    /\ PERIODS \in PeriodTables
    /\ file_stat \in [path : Paths, mtime : Mtimes]
    /\ log = <<>>

Evaluate(func) ==
    /\ Len(log) < MaxEvals
    /\ ~Crashed
    /\ LET result == appropriate(func, file_stat)
       IN  /\ log' = Append(log, [rule |-> func, file_stat |-> file_stat,
                                  result |-> result])
           /\ file_stat' = Applied(file_stat, result)
    /\ UNCHANGED PERIODS

EvaluateDateNTime == Evaluate("rule_date_n_time")
EvaluateDateWithoutTime == Evaluate("rule_date_without_time")
EvaluateDateInDir == Evaluate("rule_date_in_dir")

Next == EvaluateDateNTime \/ EvaluateDateWithoutTime \/ EvaluateDateInDir

Spec == Init /\ [][Next]_vars

(***************************************************************************)
(* What the properties below speak of.                                     *)
(***************************************************************************)
Entries == {log[i] : i \in 1..Len(log)}
EntriesOf(rule) == {e \in Entries : e.rule = rule}

\* The mtime the file has after the i-th evaluation was acted on.
MtimeAfter(i) == IF i < Len(log) THEN log[i + 1].file_stat.mtime ELSE file_stat.mtime

\* Text read field by field, at fixed 1-based positions.
AllDigits(s, a, n) ==
    a + n - 1 <= Len(s) /\ \A i \in a..(a + n - 1) : IsDigitChar(s[i])
Num(s, a, n) == IntOf(SubSeq(s, a, a + n - 1))

\* A day field: two digits, or a digit after a space (strptime's %d takes both).
DayText(s, a) ==
    \/ AllDigits(s, a, 2)
    \/ a + 1 <= Len(s) /\ s[a] = " " /\ IsDigitChar(s[a + 1]) /\ s[a + 1] # "0"
DayNum(s, a) == IF s[a] = " " THEN DigitVal(s[a + 1]) ELSE Num(s, a, 2)

CalendarDate(y, mo, d) == y >= 1 /\ mo \in 1..12 /\ d >= 1 /\ d <= DaysInMonth(y, mo)

\* The stem from its first digit on, empty when it has no digit.
FromFirstDigit(stem) ==
    LET at == {i \in 1..Len(stem) : IsDigitChar(stem[i])}
    IN  IF at = {} THEN <<>>
        ELSE SubSeq(stem, CHOOSE i \in at : \A j \in at : i <= j, Len(stem))

\* The year a file name carries: the four digits at its first digit.
HasNameYear(stem) == AllDigits(FromFirstDigit(stem), 1, 4)
NameYear(stem) == Num(FromFirstDigit(stem), 1, 4)

\* The periods that apply to a wall clock t of the system zone and a path.
PeriodsFor(t, path) ==
    {i \in 1..Len(PERIODS) :
        /\ IsRelativeTo(path.parent, PERIODS[i].path)
        /\ DateTimeLe(PERIODS[i].start, t)
        /\ DateTimeLe(t, PERIODS[i].end)}

LastDeclaredZone(t, path) ==
    IF PeriodsFor(t, path) = {} THEN SYSTEM_ZONE
    ELSE PERIODS[CHOOSE i \in PeriodsFor(t, path) :
                     \A j \in PeriodsFor(t, path) : j <= i].timezone

\* The instants timezone_for_date is asked about: the ends of every period,
\* the seconds next to them, and the mtimes.
ZoneProbes ==
    Mtimes
    \cup UNION { {PERIODS[i].start, PERIODS[i].end,
                  AsTimeZone(PERIODS[i].start, "Etc/GMT-7", SYSTEM_ZONE),
                  AsTimeZone(PERIODS[i].end, "Etc/GMT+5", SYSTEM_ZONE)} :
                 i \in 1..Len(PERIODS) }
    \cup {DT(2019, 11, 27, 19, 40, 32), DT(2018, 12, 31, 23, 59, 59)}

\* The directories above the file whose name starts with a year of YEARS, each
\* given by its depth below the root.
YearDirs(path) ==
    {i \in 1..Len(path.parent) :
        /\ AllDigits(path.parent[i], 1, 4)
        /\ Num(path.parent[i], 1, 4) \in YEARS}

Innermost(depths) == CHOOSE i \in depths : \A j \in depths : j <= i

(***************************************************************************)
(* C1.  No exception escapes a rule: every evaluation of rule_date_n_time, *)
(* rule_date_without_time and rule_date_in_dir returns a verdict.          *)
(* rule_date_in_dir breaks it: with an anchor directory that lacks the day *)
(* (or the month and the day) it puts the file's current day into the      *)
(* parsed date, and replace() raises ValueError when the month has no such *)
(* day.                                                                    *)
(***************************************************************************)
C1_NoRuleRaises == \A e \in Entries : ~e.result.raised

(***************************************************************************)
(* C2.  Idempotence: when a rule returned a new instant t and t was        *)
(* written to the file, the same rule evaluated next returns no new        *)
(* instant; and a rule never returns the instant the file already has.     *)
(***************************************************************************)
C2_Idempotent ==
    /\ \A i \in 1..(Len(log) - 1) :
           ( /\ log[i].rule = log[i + 1].rule
             /\ log[i].result.newInstant # None )
           => ( /\ log[i + 1].file_stat.mtime = log[i].result.newInstant[1]
                /\ ~log[i + 1].result.raised
                /\ log[i + 1].result.newInstant = None )
    /\ \A e \in Entries :
           e.result.newInstant # None => e.result.newInstant[1] # e.file_stat.mtime

\* Each of the three rules corrected the file and was then evaluated again;
\* here rule_date_in_dir, with the month and the day taken from the mtime.
C2_Witness ==
    \E i \in 1..(Len(log) - 1) :
        /\ log[i].rule = "rule_date_in_dir"
        /\ log[i + 1].rule = "rule_date_in_dir"
        /\ log[i].result.tried = DirFormats
        /\ log[i].result.newInstant # None
        /\ log[i + 1].result.applicable

(***************************************************************************)
(* C3.  timezone_for_date returns, for any instant and path, the zone of   *)
(* the last-declared period whose directory is the file's directory or     *)
(* above it and whose range, ends included, holds the instant; the system  *)
(* zone when no period does.                                               *)
(***************************************************************************)
C3_LastDeclaredPeriodWins ==
    \A t \in ZoneProbes :
        timezone_for_date(t, file_stat.path) = LastDeclaredZone(t, file_stat.path)

\* rule_date_n_time resolved the zone of a date that two periods of different
\* zones hold, the date being the very end of the last-declared one.
C3_Witness ==
    \E e \in EntriesOf("rule_date_n_time"), t \in ZoneProbes :
        /\ e.result.newInstant = Some(AsTimeZone(t, "Etc/GMT-7", SYSTEM_ZONE))
        /\ Cardinality(PeriodsFor(t, e.file_stat.path)) >= 2
        /\ \E i \in PeriodsFor(t, e.file_stat.path) : PERIODS[i].timezone # "Etc/GMT-7"
        /\ \E i \in PeriodsFor(t, e.file_stat.path) : PERIODS[i].end = t
        /\ LastDeclaredZone(t, e.file_stat.path) = "Etc/GMT-7"

(***************************************************************************)
(* C4.  When the year in the file name is not in YEARS and the pattern of  *)
(* rule_date_n_time or rule_date_without_time matched, the rule returns    *)
(* (applicable = true, no new instant) and prints exactly one line, which  *)
(* names that year and the file; with a year of YEARS it prints nothing.   *)
(***************************************************************************)
C4_ImplausibleYear ==
    \A e \in EntriesOf("rule_date_n_time") \cup EntriesOf("rule_date_without_time") :
        /\ ~e.result.applicable => e.result.out = <<>>
        /\ e.result.applicable =>
             /\ HasNameYear(e.file_stat.path.stem)
             /\ IF NameYear(e.file_stat.path.stem) \in YEARS
                THEN e.result.out = <<>>
                ELSE /\ e.result.newInstant = None
                     /\ e.result.out =
                          <<[year |-> NameYear(e.file_stat.path.stem),
                             path |-> e.file_stat.path]>>

\* Both rules met a year no period covers.
C4_Witness ==
    /\ \E e \in EntriesOf("rule_date_n_time") : Len(e.result.out) = 1
    /\ \E e \in EntriesOf("rule_date_without_time") : Len(e.result.out) = 1

(***************************************************************************)
(* C5.  _parent_with_year returns the nearest directory above the file     *)
(* whose name starts with four digits that form a year of YEARS, the       *)
(* innermost when several do; when none does, rule_date_in_dir returns     *)
(* (applicable = false, no new instant).                                   *)
(***************************************************************************)
C5_NearestAnchor ==
    /\ _parent_with_year(file_stat.path) =
           IF YearDirs(file_stat.path) = {} THEN None
           ELSE Some(SubSeq(file_stat.path.parent, 1,
                            Innermost(YearDirs(file_stat.path))))
    /\ \A e \in EntriesOf("rule_date_in_dir") :
           IF YearDirs(e.file_stat.path) = {}
           THEN e.result = Result(FALSE, None, <<>>, <<>>)
           ELSE /\ e.result.tried # <<>>
                /\ e.result.newInstant # None =>
                     e.result.newInstant[1].year =
                       Num(e.file_stat.path.parent[Innermost(YearDirs(e.file_stat.path))],
                           1, 4)

\* Two directories above the file name different years, and rule_date_in_dir
\* moved the file to the year of the inner one.
C5_Witness ==
    \E e \in EntriesOf("rule_date_in_dir") :
        /\ Cardinality(YearDirs(e.file_stat.path)) = 2
        /\ \E i \in YearDirs(e.file_stat.path) :
               Num(e.file_stat.path.parent[i], 1, 4) # e.file_stat.mtime.year
        /\ e.result.newInstant # None
        /\ e.result.newInstant[1].year # e.file_stat.mtime.year

(***************************************************************************)
(* The date and time a file name carries, read field by field.             *)
(***************************************************************************)
\* The 15 characters at the first digit of the stem (fewer when it ends).
Token(stem) ==
    SubSeq(FromFirstDigit(stem), 1,
           IF Len(FromFirstDigit(stem)) < 15 THEN Len(FromFirstDigit(stem)) ELSE 15)

\* 8 digits, an underscore, 6 digits, that are a date and a time of day.
TokenValid(tok) ==
    /\ Len(tok) = 15
    /\ AllDigits(tok, 1, 8) /\ tok[9] = "_" /\ AllDigits(tok, 10, 6)
    /\ CalendarDate(Num(tok, 1, 4), Num(tok, 5, 2), Num(tok, 7, 2))
    /\ Num(tok, 10, 2) <= 23 /\ Num(tok, 12, 2) <= 59 /\ Num(tok, 14, 2) <= 59

TokenDateTime(tok) ==
    DT(Num(tok, 1, 4), Num(tok, 5, 2), Num(tok, 7, 2),
       Num(tok, 10, 2), Num(tok, 12, 2), Num(tok, 14, 2))

\* The instant of the token: its date and time in the zone of the period that
\* holds them, as a wall clock of the system zone.
TokenInstant(tok, path) ==
    AsTimeZone(TokenDateTime(tok), LastDeclaredZone(TokenDateTime(tok), path),
               SYSTEM_ZONE)

\* Layout YYYYMMDD at the start of c.
LayoutYmd(c) ==
    /\ Len(c) >= 8
    /\ AllDigits(c, 1, 6) /\ DayText(c, 7)
    /\ CalendarDate(Num(c, 1, 4), Num(c, 5, 2), DayNum(c, 7))

\* Layout YYYY-MM-DD at the start of c.
LayoutY_m_d(c) ==
    /\ Len(c) >= 10
    /\ AllDigits(c, 1, 4) /\ c[5] = "-" /\ AllDigits(c, 6, 2) /\ c[8] = "-"
    /\ DayText(c, 9)
    /\ CalendarDate(Num(c, 1, 4), Num(c, 6, 2), DayNum(c, 9))

\* Layout YYYY-MM at the start of c.
LayoutY_m(c) ==
    /\ Len(c) >= 7
    /\ AllDigits(c, 1, 4) /\ c[5] = "-" /\ AllDigits(c, 6, 2)
    /\ CalendarDate(Num(c, 1, 4), Num(c, 6, 2), 1)

\* The new instant a reconciler returns for a candidate instant.
UnlessCurrent(candidate, mtime) ==
    IF candidate # mtime THEN Some(candidate) ELSE None

(***************************************************************************)
(* C6.  rule_date_n_time returns (false, none) when the stem has no digit  *)
(* or the 15 characters at its first digit are not 8 digits, an            *)
(* underscore and 6 digits that form a date and a time; otherwise it is    *)
(* applicable, and for a year of YEARS the candidate is the parsed date    *)
(* and time in the zone resolved from them (not from the file's current    *)
(* time) and the path, converted to the system zone: the new instant when  *)
(* it differs from the mtime, none when equal.                             *)
(***************************************************************************)
C6_DateNTimeVerdict ==
    \A e \in EntriesOf("rule_date_n_time") :
        LET tok == Token(e.file_stat.path.stem)
        IN  /\ ~e.result.raised
            /\ IF ~TokenValid(tok)
               THEN ~e.result.applicable /\ e.result.newInstant = None
               ELSE /\ e.result.applicable
                    /\ Num(tok, 1, 4) \in YEARS =>
                         e.result.newInstant =
                           UnlessCurrent(TokenInstant(tok, e.file_stat.path),
                                         e.file_stat.mtime)

\* The token lies in a period of another zone than the file's current time
\* does, and the rule returned the token's instant.
C6_Witness ==
    \E e \in EntriesOf("rule_date_n_time") :
        LET tok == Token(e.file_stat.path.stem)
        IN  /\ TokenValid(tok)
            /\ LastDeclaredZone(TokenDateTime(tok), e.file_stat.path) # SYSTEM_ZONE
            /\ LastDeclaredZone(e.file_stat.mtime, e.file_stat.path)
                 # LastDeclaredZone(TokenDateTime(tok), e.file_stat.path)
            /\ e.result.newInstant = Some(TokenInstant(tok, e.file_stat.path))
            /\ TokenInstant(tok, e.file_stat.path) # TokenDateTime(tok)

(***************************************************************************)
(* C7.  rule_date_without_time takes the stem from its first digit on and  *)
(* tries layout YYYYMMDD, then YYYY-MM-DD, each against the prefix of the  *)
(* layout's length; the first that parses wins.  It returns (false, none)  *)
(* when the stem has no digit or neither parses.  On a match with a year   *)
(* of YEARS the candidate has the parsed date and the time of day of the   *)
(* file's mtime: the new instant when it differs from the mtime, none when *)
(* equal.                                                                  *)
(***************************************************************************)
C7_DateWithoutTimeVerdict ==
    \A e \in EntriesOf("rule_date_without_time") :
        LET c == FromFirstDigit(e.file_stat.path.stem)
            mtime == e.file_stat.mtime
            day == IF LayoutYmd(c) THEN DayNum(c, 7) ELSE DayNum(c, 9)
            month == IF LayoutYmd(c) THEN Num(c, 5, 2) ELSE Num(c, 6, 2)
        IN  /\ ~e.result.raised
            /\ IF ~LayoutYmd(c) /\ ~LayoutY_m_d(c)
               THEN ~e.result.applicable /\ e.result.newInstant = None
               ELSE /\ e.result.applicable
                    /\ e.result.tried =
                         (IF LayoutYmd(c) THEN <<FmtYmd>> ELSE <<FmtYmd, FmtY_m_d>>)
                    /\ Num(c, 1, 4) \in YEARS =>
                         e.result.newInstant =
                           UnlessCurrent(DT(Num(c, 1, 4), month, day, mtime.hour,
                                            mtime.minute, mtime.second),
                                         mtime)

\* A date followed by other text was read from the name, and the file moved to
\* that date at the time of day it had.
C7_Witness ==
    \E e \in EntriesOf("rule_date_without_time") :
        /\ Len(FromFirstDigit(e.file_stat.path.stem)) > 8
        /\ ~TokenValid(Token(e.file_stat.path.stem))
        /\ LayoutYmd(FromFirstDigit(e.file_stat.path.stem))
        /\ e.file_stat.mtime.hour # 0
        /\ e.result.newInstant # None
        /\ e.result.newInstant[1].hour = e.file_stat.mtime.hour
        /\ e.result.newInstant[1].day # e.file_stat.mtime.day

(***************************************************************************)
(* C8.  rule_date_in_dir tries layouts YYYY-MM-DD, YYYY-MM, YYYY against   *)
(* the anchor directory's name and uses the first that parses; the         *)
(* candidate takes the year (and the month and the day the layout has)     *)
(* from the name, the month and the day the layout lacks from the file's   *)
(* mtime, and the time of day from the mtime: the new instant when it      *)
(* differs from the mtime, none when equal.  It fails where C1 fails: when *)
(* the candidate is no date of the calendar the rule raises instead.       *)
(***************************************************************************)
C8_DateInDirVerdict ==
    \A e \in EntriesOf("rule_date_in_dir") :
        YearDirs(e.file_stat.path) # {} =>
            LET name == e.file_stat.path.parent[Innermost(YearDirs(e.file_stat.path))]
                mtime == e.file_stat.mtime
                used == IF LayoutY_m_d(name) THEN 1 ELSE IF LayoutY_m(name) THEN 2 ELSE 3
                month == IF used <= 2 THEN Num(name, 6, 2) ELSE mtime.month
                day == IF used = 1 THEN DayNum(name, 9) ELSE mtime.day
            IN  /\ ~e.result.raised
                /\ e.result.applicable
                /\ e.result.tried = SubSeq(DirFormats, 1, used)
                /\ e.result.newInstant =
                     UnlessCurrent(DT(Num(name, 1, 4), month, day, mtime.hour,
                                      mtime.minute, mtime.second),
                                   mtime)

(***************************************************************************)
(* C9.  As claimed: when a date format of a rule parses a date whose year  *)
(* is not in YEARS, the rule abstains for that attempt only and still      *)
(* tries its later formats.                                                *)
(***************************************************************************)
C9_LaterFormatsStillTried ==
    /\ \A e \in EntriesOf("rule_date_without_time") :
           e.result.out # <<>> => e.result.tried = NameFormats
    /\ \A e \in EntriesOf("rule_date_in_dir") :
           e.result.out # <<>> => e.result.tried = DirFormats

(***************************************************************************)
(* C9, amended.  When a date format of rule_date_without_time parses a     *)
(* date whose year is not in YEARS, the rule prints the line and returns   *)
(* (applicable = true, no new instant) at once: that format is the last    *)
(* one tried.  rule_date_in_dir never parses such a year, the anchor's     *)
(* first four characters being a year of YEARS.                            *)
(***************************************************************************)
C9_ReturnsAtFirstParse ==
    /\ \A e \in EntriesOf("rule_date_without_time") :
           LET c == FromFirstDigit(e.file_stat.path.stem)
               line == [year |-> Num(c, 1, 4), path |-> e.file_stat.path]
           IN  /\ (LayoutYmd(c) /\ Num(c, 1, 4) \notin YEARS) =>
                     e.result = Result(TRUE, None, <<line>>, <<FmtYmd>>)
               /\ (~LayoutYmd(c) /\ LayoutY_m_d(c) /\ Num(c, 1, 4) \notin YEARS) =>
                     e.result = Result(TRUE, None, <<line>>, <<FmtYmd, FmtY_m_d>>)
    /\ \A e \in EntriesOf("rule_date_in_dir") : e.result.out = <<>>

\* The first layout parsed a year outside YEARS and no other layout was tried.
C9_Witness ==
    \E e \in EntriesOf("rule_date_without_time") :
        /\ LayoutYmd(FromFirstDigit(e.file_stat.path.stem))
        /\ NameYear(e.file_stat.path.stem) \notin YEARS
        /\ e.result.tried = <<FmtYmd>>
        /\ e.result.applicable

(***************************************************************************)
(* The rules run in a given order on a file, each new instant written back *)
(* before the next rule: Some of the final mtime, None when a rule raised. *)
(***************************************************************************)
RECURSIVE FinalMtime(_, _)
FinalMtime(order, file_stat_) ==
    IF Len(order) = 0 THEN Some(file_stat_.mtime)
    ELSE CHOOSE final \in
             { IF result.raised THEN None
               ELSE FinalMtime(Tail(order), Applied(file_stat_, result)) :
               result \in { appropriate(order[1], file_stat_) } } : TRUE

Orders ==
    {<<a, b, c>> : a \in Rules, b \in Rules, c \in Rules} \ 
    {o \in {<<a, b, c>> : a \in Rules, b \in Rules, c \in Rules} :
        o[1] = o[2] \/ o[1] = o[3] \/ o[2] = o[3]}

\* The caller's first three evaluations were the three rules, each once.
RanEachRuleOnce == Len(log) >= 3 /\ {log[1].rule, log[2].rule, log[3].rule} = Rules

\* A date-and-time token of the stem, if it has one with a year of YEARS, names
\* in its own zone the same calendar day as in the system zone.
TokenKeepsItsDay(path) ==
    LET tok == Token(path.stem)
    IN  (TokenValid(tok) /\ Num(tok, 1, 4) \in YEARS) =>
            /\ TokenInstant(tok, path).year = Num(tok, 1, 4)
            /\ TokenInstant(tok, path).month = Num(tok, 5, 2)
            /\ TokenInstant(tok, path).day = Num(tok, 7, 2)

=============================================================================
